---- MODULE Spec2Model ----
(***************************************************************************)
(* The EdgeGateway client of govcloudair (edgegateway.go) as a state       *)
(* machine: the gateway object the client holds (e.EdgeGateway), the       *)
(* gateway as the server has it, and the position of the one call in       *)
(* progress.  A call is split at its HTTP requests: the step named after   *)
(* the operation runs the code up to the POST (the Refresh GET included),  *)
(* and a Post step is one pass through the code from the POST on.          *)
(***************************************************************************)
EXTENDS Integers, Sequences, FiniteSets, TLC

VARIABLES
    server,       \* the gateway resource as the server holds it
    EdgeGateway,  \* e.EdgeGateway: the object the client holds
    pc,           \* "idle": no call in progress; "post": before a POST; "crashed": a panic ended the program
    call,         \* the call in progress or the last one: operation, arguments, locals, counters, result
    prev,         \* what the call before this one was and did
    foreign,      \* entries another party put on the server since the client's last successful Refresh
    disturbed     \* another party changed the server since this call began

vars == <<server, EdgeGateway, pc, call, prev, foreign, disturbed>>

-----------------------------------------------------------------------------
(* Bounds of the model. *)

\* longest NAT, firewall or pool list the other party or an appending call may build
MaxRules == 3
\* longest interface list of a gateway
MaxIfs == 3
\* most POSTs the server answers "busy" within one call
MaxBusy == 2
\* most calls of a behaviour that makes several
MaxCalls == 2

-----------------------------------------------------------------------------
(* Values. *)

GwHref == "https://vcd/api/admin/edgeGateway/1"

NetA == [HREF |-> "netA", Name |-> "A"]
NetB == [HREF |-> "netB", Name |-> "B"]
NetC == [HREF |-> "netC", Name |-> "C"]

\* the zero value of types.Reference (var uplink types.Reference)
ZeroReference == [HREF |-> "", Name |-> ""]

\* a nil *types.OrgVDCNetwork
NilNetwork == [isNil |-> TRUE, HREF |-> "", Name |-> ""]

Network(n) == [isNil |-> FALSE, HREF |-> n.HREF, Name |-> n.Name]

GatewayInterface(type, net) == [InterfaceType |-> type, Network |-> net]

NatRule(desc, type, oip, oport, tip, tport, proto, href) ==
    [Description |-> desc, RuleType |-> type, IsEnabled |-> TRUE,
     Interface |-> href, OriginalIP |-> oip, OriginalPort |-> oport,
     TranslatedIP |-> tip, TranslatedPort |-> tport, Protocol |-> proto]

FirewallRule(desc, policy, any, dport, dip, sport, sip) ==
    [Description |-> desc, IsEnabled |-> TRUE, Policy |-> policy,
     ProtocolsAny |-> any, DestinationPortRange |-> dport,
     DestinationIP |-> dip, SourcePortRange |-> sport, SourceIP |-> sip,
     EnableLogging |-> FALSE]

DhcpPoolService(net, dlt, mlt, low, high) ==
    [IsEnabled |-> TRUE, Network |-> net, DefaultLeaseTime |-> dlt,
     MaxLeaseTime |-> mlt, LowIPAddress |-> low, HighIPAddress |-> high]

\* *types.NatService, nil or not
NilNatService ==
    [isNil |-> TRUE, IsEnabled |-> FALSE, NatType |-> "", Policy |-> "",
     ExternalIP |-> "", NatRule |-> <<>>]

NatService(enabled, type, policy, ip, rules) ==
    [isNil |-> FALSE, IsEnabled |-> enabled, NatType |-> type,
     Policy |-> policy, ExternalIP |-> ip, NatRule |-> rules]

\* *types.FirewallService, nil or not
NilFirewallService ==
    [isNil |-> TRUE, IsEnabled |-> FALSE, DefaultAction |-> "",
     LogDefaultAction |-> FALSE, FirewallRule |-> <<>>]

FirewallService(enabled, action, log, rules) ==
    [isNil |-> FALSE, IsEnabled |-> enabled, DefaultAction |-> action,
     LogDefaultAction |-> log, FirewallRule |-> rules]

\* *types.GatewayDhcpService, nil or not
NilDhcpService == [isNil |-> TRUE, IsEnabled |-> FALSE, Pool |-> <<>>]

GatewayDhcpService(enabled, pools) ==
    [isNil |-> FALSE, IsEnabled |-> enabled, Pool |-> pools]

\* types.EdgeGatewayServiceConfiguration: the document, and the held
\* configuration's service section.  A nil section is left out of the XML.
ServiceConfiguration(xmlns, nat, fw, dhcp, vpn) ==
    [Xmlns |-> xmlns, NatService |-> nat, FirewallService |-> fw,
     GatewayDhcpService |-> dhcp, GatewayIpsecVpnService |-> vpn]

VcloudXmlns == "http://www.vmware.com/vcloud/v1.5"

NilConfiguration ==
    [isNil |-> TRUE, GatewayInterfaces |-> <<>>,
     EdgeGatewayServiceConfiguration |->
        ServiceConfiguration("", NilNatService, NilFirewallService, NilDhcpService, "")]

Configuration(ifs, svc) ==
    [isNil |-> FALSE, GatewayInterfaces |-> ifs,
     EdgeGatewayServiceConfiguration |-> svc]

\* a nil *types.EdgeGateway
NilEdgeGateway == [isNil |-> TRUE, HREF |-> "", Configuration |-> NilConfiguration]

\* new(types.EdgeGateway), &types.EdgeGateway{}: every field zero
EmptyEdgeGateway == [isNil |-> FALSE, HREF |-> "", Configuration |-> NilConfiguration]

\* NewEdgeGateway(c)
NewEdgeGateway == EmptyEdgeGateway

-----------------------------------------------------------------------------
(* The transport: what checkResp(e.c.Http.Do(req)) and decodeBody give.    *)

BusyText == "is busy completing an operation"

\* Error messages, as the pieces of their text; a one-character piece is a
\* character of the message.
Chars == {".", "!", "\n"}

ErrorMessages ==
    { <<"API Error: 400: gateway ", BusyText, ".">>,
      <<BusyText, "!">>,
      <<BusyText, ".", "\n">>,
      <<BusyText, ".", " Try again later">>,
      <<"API Error: 500: internal server error">> }

\* MatchBusy with the pattern not anchored at the end of the message
MatchBusyUnanchored(msg) ==
    \E i \in 1..(Len(msg) - 1) : msg[i] = BusyText /\ msg[i + 1] \in Chars \ {"\n"}

\* regexp.MatchString("is busy completing an operation.$", err.Error()):
\* the text, then any one character but a newline, then the end of the message
MatchBusy(msg) ==
    /\ Len(msg) >= 2
    /\ msg[Len(msg) - 1] = BusyText
    /\ msg[Len(msg)] \in Chars \ {"\n"}

\* a response: 2xx with a body that decodes ("ok"), 2xx with one that does
\* not ("badbody"), or an error (no response, or a status that is not 2xx)
OkResponse == [kind |-> "ok", msg |-> <<>>]
BadBodyResponse == [kind |-> "badbody", msg |-> <<>>]
ErrResponse(m) == [kind |-> "err", msg |-> m]

Responses == {OkResponse, BadBodyResponse} \cup {ErrResponse(m) : m \in ErrorMessages}

\* no request sent, so no answer
NoResponse == [kind |-> "none", msg |-> <<>>]

\* url.ParseRequestURI(href): nil (and an error, which every caller drops)
\* for an empty reference, so that *u and s.Path dereference nil
ParseRequestURI(href) == IF href = "" THEN [isNil |-> TRUE, Path |-> ""] ELSE [isNil |-> FALSE, Path |-> href]

\* the gateway document the server answers a GET with, decoded
DecodeEdgeGateway(srv) == [isNil |-> FALSE, HREF |-> GwHref, Configuration |-> Configuration(srv.GatewayInterfaces, srv.EdgeGatewayServiceConfiguration)]

\* The server configuring its services from a posted document: each section
\* the document holds replaces the server's, the others stay.
ConfigureServices(srv, document) ==
    LET old == srv.EdgeGatewayServiceConfiguration
        new == [old EXCEPT
                  !.NatService = IF document.NatService.isNil THEN @ ELSE document.NatService,
                  !.FirewallService = IF document.FirewallService.isNil THEN @ ELSE document.FirewallService,
                  !.GatewayDhcpService = IF document.GatewayDhcpService.isNil THEN @ ELSE document.GatewayDhcpService,
                  !.GatewayIpsecVpnService = IF document.GatewayIpsecVpnService = "" THEN @ ELSE document.GatewayIpsecVpnService]
    IN  [srv EXCEPT !.EdgeGatewayServiceConfiguration = new]

NoDocument == ServiceConfiguration("", NilNatService, NilFirewallService, NilDhcpService, "")

-----------------------------------------------------------------------------
(* Calls. *)

NoCall ==
    [n |-> 0, op |-> "none", args |-> <<>>, uplink |-> "", existing |-> NilEdgeGateway,
     before |-> <<>>, doc |-> NoDocument, gets |-> 0, posts |-> 0, sleeps |-> 0,
     answers |-> <<>>, refresh |-> "none", got |-> NoResponse, result |-> "none",
     first |-> NilEdgeGateway, fetched |-> <<>>]

\* the record of a call that begins now; two fields are kept from call to
\* call: the object held before the first call (first), and the last 2xx
\* answer to a GET with the gateway the server had then (fetched)
StartCall(o, a) ==
    [n |-> call.n + 1, op |-> o, args |-> a, uplink |-> "", existing |-> EdgeGateway,
     before |-> server, doc |-> NoDocument, gets |-> 0, posts |-> 0, sleeps |-> 0,
     answers |-> <<>>, refresh |-> "none", got |-> NoResponse, result |-> "none",
     first |-> call.first, fetched |-> call.fetched]

\* bookkeeping of every step that begins a call
Begin ==
    /\ pc = "idle"
    /\ prev' = [op |-> call.op, args |-> call.args, result |-> call.result,
                refresh |-> call.refresh, before |-> call.before,
                undisturbed |-> ~disturbed]
    /\ disturbed' = FALSE

\* a nil dereference: the program panics
Panic(c) ==
    /\ call' = [c EXCEPT !.result = "panic"]
    /\ pc' = "crashed"

\* a return before any POST
Return(c, res) ==
    /\ call' = [c EXCEPT !.result = res]
    /\ pc' = "idle"

\* the request is built and about to be sent
GoPost(c) ==
    /\ call' = c
    /\ pc' = "post"

\* e.Refresh() on the held object gw, the server answering the GET with resp:
\* the error it returns ("ok" for nil), the object held afterwards, the GETs sent
RefreshCallDiscardsBeforeGet(gw, resp) ==
    IF gw.isNil THEN [outcome |-> "err", gw |-> gw, gets |-> 0, got |-> NoResponse]
    ELSE IF ParseRequestURI(gw.HREF).isNil THEN [outcome |-> "panic", gw |-> gw, gets |-> 0, got |-> NoResponse]
    ELSE IF resp.kind = "ok" THEN [outcome |-> "ok", gw |-> DecodeEdgeGateway(server), gets |-> 1, got |-> resp]
    ELSE [outcome |-> "err", gw |-> EmptyEdgeGateway, gets |-> 1, got |-> resp]

RefreshCall(gw, resp) ==
    IF gw.isNil THEN [outcome |-> "err", gw |-> gw, gets |-> 0, got |-> NoResponse]
    ELSE IF ParseRequestURI(gw.HREF).isNil THEN [outcome |-> "panic", gw |-> gw, gets |-> 0, got |-> NoResponse]
    ELSE IF resp.kind = "err" THEN [outcome |-> "err", gw |-> gw, gets |-> 1, got |-> resp]
    ELSE IF resp.kind = "badbody" THEN [outcome |-> "err", gw |-> EmptyEdgeGateway, gets |-> 1, got |-> resp]
    ELSE [outcome |-> "ok", gw |-> DecodeEdgeGateway(server), gets |-> 1, got |-> resp]

\* the last 2xx answer to a GET, after the Refresh r
Fetched(r) ==
    IF r.got.kind \in {"ok", "badbody"} THEN <<[resp |-> r.got, srv |-> server]>> ELSE call.fetched

\* the other party's entries a successful Refresh makes known to the client
Seen(r) == IF r.outcome = "ok" THEN {} ELSE foreign

\* Refresh called by the user
Refresh(resp) ==
    /\ Begin
    /\ LET r == RefreshCall(EdgeGateway, resp)
           c == [StartCall("Refresh", <<>>) EXCEPT !.gets = r.gets, !.refresh = r.outcome, !.got = r.got, !.fetched = Fetched(r)]
       IN  /\ EdgeGateway' = r.gw
           /\ foreign' = Seen(r)
           /\ IF r.outcome = "panic" THEN Panic(c)
              ELSE Return(c, IF r.outcome = "ok" THEN "ok" ELSE "error")
    /\ UNCHANGED server

-----------------------------------------------------------------------------
(* NAT port mappings. *)

\* the loop over the interfaces: every interface flagged "uplink" overwrites
\* the one found before it
RECURSIVE UplinkLoop(_, _, _)
UplinkLoop(ifs, i, uplink) ==
    IF i > Len(ifs) THEN uplink
    ELSE UplinkLoop(ifs, i + 1, IF ifs[i].InterfaceType # "uplink" THEN uplink ELSE ifs[i].Network)

\* getFirstUplink stopping at the first interface flagged "uplink"
getFirstUplinkStopsAtFirst ==
    LET ifs == EdgeGateway.Configuration.GatewayInterfaces
        ups == {i \in 1..Len(ifs) : ifs[i].InterfaceType = "uplink"}
    IN  IF ups = {} THEN ZeroReference
        ELSE ifs[CHOOSE i \in ups : \A j \in ups : i <= j].Network

getFirstUplink == UplinkLoop(EdgeGateway.Configuration.GatewayInterfaces, 1, ZeroReference)

\* AddNATKeeps comparing the original endpoint only, as RemoveNATPortMapping does
AddNATKeepsByOriginal(v, uplinkRef, nattype, externalIP, externalPort, internalIP, internalPort) ==
    ~ ( /\ v.RuleType = nattype
        /\ v.OriginalIP = externalIP
        /\ v.OriginalPort = externalPort
        /\ v.Interface = uplinkRef )

\* the rules AddNATPortMappingWithUplink copies: all but those with the new rule's six fields
AddNATKeeps(v, uplinkRef, nattype, externalIP, externalPort, internalIP, internalPort) ==
    ~ ( /\ v.RuleType = nattype
        /\ v.OriginalIP = externalIP
        /\ v.OriginalPort = externalPort
        /\ v.TranslatedIP = internalIP
        /\ v.TranslatedPort = internalPort
        /\ v.Interface = uplinkRef )

AddNATPortMappingWithUplink(network, nattype, externalIP, externalPort, internalIP, internalPort) ==
    /\ Begin
    /\ UNCHANGED <<server, foreign>>
    /\ LET c == StartCall("AddNATPortMappingWithUplink",
                          [network |-> network, nattype |-> nattype, externalIP |-> externalIP,
                           externalPort |-> externalPort, internalIP |-> internalIP,
                           internalPort |-> internalPort])
       IN  IF EdgeGateway.isNil \/ EdgeGateway.Configuration.isNil
           THEN Panic(c) /\ UNCHANGED EdgeGateway
           ELSE
             LET uplinkRef == IF ~network.isNil THEN network.HREF ELSE getFirstUplink.HREF
                 newedgeconfig == EdgeGateway.Configuration.EdgeGatewayServiceConfiguration
                 kept == IF newedgeconfig.NatService.isNil THEN <<>>
                         ELSE SelectSeq(newedgeconfig.NatService.NatRule,
                                        LAMBDA v : AddNATKeeps(v, uplinkRef, nattype, externalIP, externalPort, internalIP, internalPort))
                 natRule == NatRule("", nattype, externalIP, externalPort, internalIP, internalPort, "tcp", uplinkRef)
                 newnatservice ==
                     IF newedgeconfig.NatService.isNil
                     THEN NatService(TRUE, "", "", "", Append(kept, natRule))
                     ELSE NatService(newedgeconfig.NatService.IsEnabled, newedgeconfig.NatService.NatType,
                                     newedgeconfig.NatService.Policy, newedgeconfig.NatService.ExternalIP,
                                     Append(kept, natRule))
                 newRules == ServiceConfiguration(VcloudXmlns, newnatservice, NilFirewallService, NilDhcpService, "")
                 c1 == [c EXCEPT !.uplink = uplinkRef, !.doc = newRules]
             IN  /\ EdgeGateway' = [EdgeGateway EXCEPT !.Configuration.EdgeGatewayServiceConfiguration.NatService = newnatservice]
                 /\ IF ParseRequestURI(EdgeGateway.HREF).isNil THEN Panic(c1) ELSE GoPost(c1)

AddNATPortMapping(nattype, externalIP, externalPort, internalIP, internalPort) ==
    AddNATPortMappingWithUplink(NilNetwork, nattype, externalIP, externalPort, internalIP, internalPort)

AddNATMapping(nattype, externalIP, internalIP, port) ==
    AddNATPortMapping(nattype, externalIP, port, internalIP, port)

\* the uplink RemoveNATPortMapping finds
RemoveNATUplink == UplinkLoop(EdgeGateway.Configuration.GatewayInterfaces, 1, ZeroReference)

\* RemoveNATDrops without the comparison of the interface
RemoveNATDropsOnAnyInterface(v, uplink, nattype, externalIP, externalPort) ==
    /\ v.RuleType = nattype
    /\ v.OriginalIP = externalIP
    /\ v.OriginalPort = externalPort

\* the rules RemoveNATPortMapping drops
RemoveNATDrops(v, uplink, nattype, externalIP, externalPort) ==
    /\ v.RuleType = nattype
    /\ v.OriginalIP = externalIP
    /\ v.OriginalPort = externalPort
    /\ v.Interface = uplink.HREF

RemoveNATPortMapping(nattype, externalIP, externalPort, internalIP, internalPort) ==
    /\ Begin
    /\ UNCHANGED <<server, foreign>>
    /\ LET c == StartCall("RemoveNATPortMapping",
                          [nattype |-> nattype, externalIP |-> externalIP, externalPort |-> externalPort,
                           internalIP |-> internalIP, internalPort |-> internalPort])
       IN  IF EdgeGateway.isNil \/ EdgeGateway.Configuration.isNil
              \/ EdgeGateway.Configuration.EdgeGatewayServiceConfiguration.NatService.isNil
           THEN Panic(c) /\ UNCHANGED EdgeGateway
           ELSE
             LET uplink == RemoveNATUplink
                 newedgeconfig == EdgeGateway.Configuration.EdgeGatewayServiceConfiguration
                 newnatservice ==
                     NatService(newedgeconfig.NatService.IsEnabled, newedgeconfig.NatService.NatType,
                                newedgeconfig.NatService.Policy, newedgeconfig.NatService.ExternalIP,
                                SelectSeq(newedgeconfig.NatService.NatRule,
                                          LAMBDA v : ~RemoveNATDrops(v, uplink, nattype, externalIP, externalPort)))
                 newRules == ServiceConfiguration(VcloudXmlns, newnatservice, NilFirewallService, NilDhcpService, "")
                 c1 == [c EXCEPT !.uplink = uplink.HREF, !.doc = newRules]
             IN  /\ EdgeGateway' = [EdgeGateway EXCEPT !.Configuration.EdgeGatewayServiceConfiguration.NatService = newnatservice]
                 /\ IF ParseRequestURI(EdgeGateway.HREF).isNil THEN Panic(c1) ELSE GoPost(c1)

RemoveNATMapping(nattype, externalIP, internalIP, port) ==
    RemoveNATPortMapping(nattype, externalIP, port, internalIP, port)

-----------------------------------------------------------------------------
(* DHCP pools. *)

DefaultLeaseTime == 3600
MaxLeaseTime == 7200

\* One entry of dhcppool, a map: a key that is absent is the empty sequence,
\* one that is present the sequence of its value.
PoolRequest(dlt, mlt, start, end) ==
    [default_lease_time |-> dlt, max_lease_time |-> mlt, start_address |-> start, end_address |-> end]

\* the pool AddDhcpPool makes of one entry, for the network
NewPool(network, data) ==
    [IsEnabled |-> TRUE,
     Network |-> [HREF |-> network.HREF, Name |-> network.Name],
     DefaultLeaseTime |-> IF data.default_lease_time = <<>> THEN DefaultLeaseTime ELSE data.default_lease_time[1],
     MaxLeaseTime |-> IF data.max_lease_time = <<>> THEN MaxLeaseTime ELSE data.max_lease_time[1],
     LowIPAddress |-> data.start_address[1],
     HighIPAddress |-> data.end_address[1]]

\* AddDhcpPoolKeeps comparing the names of the networks, not their references
AddDhcpPoolKeepsByName(v, network) == ~(v.Network.Name = network.Name)

\* the pools AddDhcpPool copies: those of the other networks
AddDhcpPoolKeeps(v, network) == ~(v.Network.HREF = network.HREF)

\* the first entry whose address is not a string (nil.(string) panics), or 0
RECURSIVE FirstBadEntry(_, _)
FirstBadEntry(dhcppool, i) ==
    IF i > Len(dhcppool) THEN 0
    ELSE IF dhcppool[i].start_address = <<>> \/ dhcppool[i].end_address = <<>> THEN i
    ELSE FirstBadEntry(dhcppool, i + 1)

AddDhcpPool(network, dhcppool) ==
    /\ Begin
    /\ UNCHANGED <<server, foreign, EdgeGateway>>
    /\ LET c == StartCall("AddDhcpPool", [network |-> network, dhcppool |-> dhcppool])
       IN  IF EdgeGateway.isNil \/ EdgeGateway.Configuration.isNil \/ FirstBadEntry(dhcppool, 1) # 0
           THEN Panic(c)
           ELSE
             LET newedgeconfig == EdgeGateway.Configuration.EdgeGatewayServiceConfiguration
                 kept == IF newedgeconfig.GatewayDhcpService.isNil THEN <<>>
                         ELSE SelectSeq(newedgeconfig.GatewayDhcpService.Pool,
                                        LAMBDA v : AddDhcpPoolKeeps(v, network))
                 added == [i \in 1..Len(dhcppool) |-> NewPool(network, dhcppool[i])]
                 newdchpservice ==
                     GatewayDhcpService(IF newedgeconfig.GatewayDhcpService.isNil THEN TRUE
                                        ELSE newedgeconfig.GatewayDhcpService.IsEnabled,
                                        kept \o added)
                 newRules == ServiceConfiguration(VcloudXmlns, NilNatService, NilFirewallService, newdchpservice, "")
                 c1 == [c EXCEPT !.doc = newRules]
             IN  IF ParseRequestURI(EdgeGateway.HREF).isNil THEN Panic(c1) ELSE GoPost(c1)

-----------------------------------------------------------------------------
(* Firewall rules. *)

CreateFirewallRules(defaultAction, rules, get) ==
    /\ Begin
    /\ UNCHANGED server
    /\ LET r == RefreshCall(EdgeGateway, get)
           c == [StartCall("CreateFirewallRules", [defaultAction |-> defaultAction, rules |-> rules])
                   EXCEPT !.gets = r.gets, !.refresh = r.outcome, !.got = r.got, !.fetched = Fetched(r)]
           newRules == ServiceConfiguration(VcloudXmlns, NilNatService,
                                            FirewallService(TRUE, defaultAction, TRUE, rules),
                                            NilDhcpService, "")
       IN  /\ EdgeGateway' = r.gw
           /\ foreign' = Seen(r)
           /\ IF r.outcome = "panic" THEN Panic(c)
              ELSE IF r.outcome = "err" THEN Return(c, "error")
              ELSE IF ParseRequestURI(r.gw.HREF).isNil THEN Panic(c)
              ELSE GoPost([c EXCEPT !.doc = newRules])

-----------------------------------------------------------------------------
(* 1:1 mappings. *)

\* the uplink Create1to1Mapping finds in the configuration cfg
Create1to1Uplink(cfg) == UplinkLoop(cfg.GatewayInterfaces, 1, ZeroReference).HREF

\* the uplink Remove1to1Mapping finds in the configuration cfg
Remove1to1Uplink(cfg) == UplinkLoop(cfg.GatewayInterfaces, 1, ZeroReference).HREF

Create1to1Mapping(internal, external, description, get) ==
    /\ Begin
    /\ UNCHANGED server
    /\ LET r == RefreshCall(EdgeGateway, get)
           c == [StartCall("Create1to1Mapping", [internal |-> internal, external |-> external, description |-> description])
                   EXCEPT !.gets = r.gets, !.refresh = r.outcome, !.got = r.got, !.fetched = Fetched(r), !.existing = r.gw]
           gw == r.gw
           newedgeconfig == gw.Configuration.EdgeGatewayServiceConfiguration
           uplinkif == Create1to1Uplink(gw.Configuration)
           snat == NatRule(description, "SNAT", internal, "", external, "", "any", uplinkif)
           dnat == NatRule(description, "DNAT", external, "any", internal, "any", "any", uplinkif)
           fwin == FirewallRule(description, "allow", TRUE, "Any", external, "Any", "Any")
           fwout == FirewallRule(description, "allow", TRUE, "Any", "Any", "Any", internal)
           withnat == [newedgeconfig EXCEPT !.NatService.NatRule = @ \o <<snat, dnat>>]
           withfw == [withnat EXCEPT !.FirewallService.FirewallRule = @ \o <<fwin, fwout>>]
           c1 == [c EXCEPT !.uplink = uplinkif]
       IN  /\ foreign' = Seen(r)
           /\ IF r.outcome = "panic" \/ gw.isNil \/ gw.Configuration.isNil \/ newedgeconfig.NatService.isNil
              THEN EdgeGateway' = gw /\ Panic(c)
              ELSE IF newedgeconfig.FirewallService.isNil
              THEN /\ EdgeGateway' = [gw EXCEPT !.Configuration.EdgeGatewayServiceConfiguration = withnat]
                   /\ Panic(c1)
              ELSE /\ EdgeGateway' = [gw EXCEPT !.Configuration.EdgeGatewayServiceConfiguration = withfw]
                   /\ IF ParseRequestURI(gw.HREF).isNil THEN Panic(c1)
                      ELSE GoPost([c1 EXCEPT !.doc = withfw])

\* the NAT rules Remove1to1Mapping drops
Remove1to1DropsNat(v, uplinkif, internal, external) ==
    \/ /\ v.RuleType = "DNAT"
       /\ v.OriginalIP = external
       /\ v.TranslatedIP = internal
       /\ v.OriginalPort = "any"
       /\ v.TranslatedPort = "any"
       /\ v.Protocol = "any"
       /\ v.Interface = uplinkif
    \/ /\ v.RuleType = "SNAT"
       /\ v.OriginalIP = internal
       /\ v.TranslatedIP = external
       /\ v.Interface = uplinkif

\* the firewall rules Remove1to1Mapping drops
Remove1to1DropsFw(v, internal, external) ==
    \/ /\ v.Policy = "allow"
       /\ v.ProtocolsAny = TRUE
       /\ v.DestinationPortRange = "Any"
       /\ v.SourcePortRange = "Any"
       /\ v.SourceIP = "Any"
       /\ v.DestinationIP = external
    \/ /\ v.Policy = "allow"
       /\ v.ProtocolsAny = TRUE
       /\ v.DestinationPortRange = "Any"
       /\ v.SourcePortRange = "Any"
       /\ v.SourceIP = internal
       /\ v.DestinationIP = "Any"

Remove1to1Mapping(internal, external, get) ==
    /\ Begin
    /\ UNCHANGED server
    /\ LET r == RefreshCall(EdgeGateway, get)
           c == [StartCall("Remove1to1Mapping", [internal |-> internal, external |-> external])
                   EXCEPT !.gets = r.gets, !.refresh = r.outcome, !.got = r.got, !.fetched = Fetched(r), !.existing = r.gw]
           gw == r.gw
           newedgeconfig == gw.Configuration.EdgeGatewayServiceConfiguration
           uplinkif == Remove1to1Uplink(gw.Configuration)
           newnatservice ==
               NatService(newedgeconfig.NatService.IsEnabled, newedgeconfig.NatService.NatType,
                          newedgeconfig.NatService.Policy, newedgeconfig.NatService.ExternalIP,
                          SelectSeq(newedgeconfig.NatService.NatRule,
                                    LAMBDA v : ~Remove1to1DropsNat(v, uplinkif, internal, external)))
           newfwservice ==
               FirewallService(newedgeconfig.FirewallService.IsEnabled, newedgeconfig.FirewallService.DefaultAction,
                               newedgeconfig.FirewallService.LogDefaultAction,
                               SelectSeq(newedgeconfig.FirewallService.FirewallRule,
                                         LAMBDA v : ~Remove1to1DropsFw(v, internal, external)))
           withnat == [newedgeconfig EXCEPT !.NatService = newnatservice]
           withfw == [withnat EXCEPT !.FirewallService = newfwservice, !.NatService.IsEnabled = TRUE]
           c1 == [c EXCEPT !.uplink = uplinkif]
       IN  /\ foreign' = Seen(r)
           /\ IF r.outcome = "panic" \/ gw.isNil \/ gw.Configuration.isNil \/ newedgeconfig.NatService.isNil
              THEN EdgeGateway' = gw /\ Panic(c)
              ELSE IF newedgeconfig.FirewallService.isNil
              THEN /\ EdgeGateway' = [gw EXCEPT !.Configuration.EdgeGatewayServiceConfiguration = withnat]
                   /\ Panic(c1)
              ELSE /\ EdgeGateway' = [gw EXCEPT !.Configuration.EdgeGatewayServiceConfiguration = withfw]
                   /\ IF ParseRequestURI(gw.HREF).isNil THEN Panic(c1)
                      ELSE GoPost([c1 EXCEPT !.doc = withfw])

-----------------------------------------------------------------------------
(* IPsec VPN. *)

AddIpsecVPN(ipsecVPNConfig, get) ==
    /\ Begin
    /\ UNCHANGED server
    /\ LET r == RefreshCall(EdgeGateway, get)
           c == [StartCall("AddIpsecVPN", [ipsecVPNConfig |-> ipsecVPNConfig])
                   EXCEPT !.gets = r.gets, !.refresh = r.outcome, !.got = r.got, !.fetched = Fetched(r)]
       IN  /\ EdgeGateway' = r.gw
           /\ foreign' = Seen(r)
           /\ IF r.outcome = "panic" \/ r.gw.isNil \/ ParseRequestURI(r.gw.HREF).isNil
              THEN Panic(c)
              ELSE GoPost([c EXCEPT !.doc = ipsecVPNConfig])

-----------------------------------------------------------------------------
(* The POST and what follows it. *)

\* the server's part of a POST it answers with resp: a 2xx answer means it
\* took the document
Served(resp) ==
    IF resp.kind \in {"ok", "badbody"} THEN ConfigureServices(server, call.doc) ELSE server

\* what the call returns after a response that ends it: the task, or the
\* error of the POST or of decoding the task
Returned(resp) == IF resp.kind = "ok" THEN "ok" ELSE "error"

\* the POST of operation o where it is sent once: whatever the answer, return
SinglePost(o, resp) ==
    /\ pc = "post"
    /\ call.op = o
    /\ server' = Served(resp)
    /\ call' = [call EXCEPT !.posts = @ + 1, !.answers = Append(@, resp), !.result = Returned(resp)]
    /\ pc' = "idle"
    /\ UNCHANGED <<EdgeGateway, prev, foreign, disturbed>>

\* one pass of the for loop around the POST of operation o: sleep and go
\* round again on an error the pattern matches, return on anything else
LoopPost(o, resp) ==
    /\ pc = "post"
    /\ call.op = o
    /\ server' = Served(resp)
    /\ IF resp.kind = "err" /\ MatchBusy(resp.msg)
       THEN /\ call.sleeps < MaxBusy
            /\ call' = [call EXCEPT !.posts = @ + 1, !.answers = Append(@, resp), !.sleeps = @ + 1]
            /\ pc' = "post"
       ELSE /\ call' = [call EXCEPT !.posts = @ + 1, !.answers = Append(@, resp), !.result = Returned(resp)]
            /\ pc' = "idle"
    /\ UNCHANGED <<EdgeGateway, prev, foreign, disturbed>>

AddDhcpPoolPost(resp) == LoopPost("AddDhcpPool", resp)

CreateFirewallRulesPost(resp) == LoopPost("CreateFirewallRules", resp)

RemoveNATPortMappingPost(resp) == SinglePost("RemoveNATPortMapping", resp)

AddNATPortMappingWithUplinkPost(resp) == SinglePost("AddNATPortMappingWithUplink", resp)

Create1to1MappingPost(resp) == SinglePost("Create1to1Mapping", resp)

Remove1to1MappingPost(resp) == SinglePost("Remove1to1Mapping", resp)

\* AddIpsecVPN with the loop of AddDhcpPool around its POST
AddIpsecVPNPostInLoop(resp) == LoopPost("AddIpsecVPN", resp)

AddIpsecVPNPost(resp) == SinglePost("AddIpsecVPN", resp)

-----------------------------------------------------------------------------
(* The other party: someone else configuring the same gateway. *)

OtherPartyAddsNatRule(r) ==
    /\ pc # "crashed"
    /\ ~server.EdgeGatewayServiceConfiguration.NatService.isNil
    /\ server' = [server EXCEPT !.EdgeGatewayServiceConfiguration.NatService.NatRule = Append(@, r)]
    /\ foreign = {}
    /\ foreign' = {r}
    /\ disturbed' = TRUE
    /\ UNCHANGED <<EdgeGateway, pc, call, prev>>

-----------------------------------------------------------------------------
(* Initial states. *)

\* all sequences over S of length at most n
SeqsUpTo(S, n) == UNION {[1..k -> S] : k \in 0..n}

\* those of them that hold no element twice
ListsUpTo(S, n) == {q \in SeqsUpTo(S, n) : \A i, j \in 1..Len(q) : q[i] = q[j] => i = j}

Gateway(ifs, nat, fw, dhcp) ==
    [GatewayInterfaces |-> ifs,
     EdgeGatewayServiceConfiguration |-> ServiceConfiguration("", nat, fw, dhcp, "")]

\* The client holds nothing (a nil object), the object NewEdgeGateway makes,
\* or the gateway as it last fetched it, which is the server's.
InitWith(gateways, helds) ==
    /\ server \in gateways
    /\ EdgeGateway \in {IF h = "nil" THEN NilEdgeGateway
                        ELSE IF h = "new" THEN NewEdgeGateway
                        ELSE DecodeEdgeGateway(server) : h \in helds}
    /\ pc = "idle"
    /\ call = [NoCall EXCEPT !.before = server, !.first = EdgeGateway]
    /\ prev = [op |-> "none", args |-> <<>>, result |-> "none", refresh |-> "none",
               before |-> server, undisturbed |-> TRUE]
    /\ foreign = {}
    /\ disturbed = FALSE

-----------------------------------------------------------------------------
(* The NAT port-mapping operations on gateways with every short rule list. *)

Uplink(net) == GatewayInterface("uplink", net)
Internal(net) == GatewayInterface("internal", net)

\* the mapping the calls ask for, and rules that differ from it in one field
BaseRule == NatRule("", "DNAT", "1.2.3.4", "80", "10.0.0.1", "8080", "tcp", "netB")

NatRuleDomain ==
    { BaseRule,
      [BaseRule EXCEPT !.Protocol = "udp"],
      [BaseRule EXCEPT !.RuleType = "SNAT"],
      [BaseRule EXCEPT !.OriginalIP = "5.6.7.8"],
      [BaseRule EXCEPT !.OriginalPort = "443"],
      [BaseRule EXCEPT !.TranslatedIP = "10.0.0.2"],
      [BaseRule EXCEPT !.TranslatedPort = "80"],
      [BaseRule EXCEPT !.Interface = "netA"] }

PlainFirewall == FirewallService(TRUE, "drop", FALSE, <<>>)

NatGateways ==
    { Gateway(<<Uplink(NetA), Internal(NetC), Uplink(NetB)>>, nat, PlainFirewall, NilDhcpService) :
        nat \in {NilNatService} \cup
                {NatService(TRUE, "ipTranslation", "allowTraffic", "", rules) :
                    rules \in ListsUpTo(NatRuleDomain, MaxRules)} }

InitNat == InitWith(NatGateways, {"held", "new"})

\* one call on each of these gateways
NextNat ==
    \/ /\ call.n = 0
       /\ \E network \in {NilNetwork, Network(NetA)} :
               AddNATPortMappingWithUplink(network, "DNAT", "1.2.3.4", "80", "10.0.0.1", "8080")
    \/ /\ call.n = 0
       /\ RemoveNATPortMapping("DNAT", "1.2.3.4", "80", "10.0.0.1", "8080")
    \/ \E resp \in Responses : AddNATPortMappingWithUplinkPost(resp)
    \/ \E resp \in Responses : RemoveNATPortMappingPost(resp)

SpecNat == InitNat /\ [][NextNat]_vars

-----------------------------------------------------------------------------
(* AddDhcpPool on gateways with every short pool list. *)

\* a second reference to network A, under another name
NetAOld == [HREF |-> "netA", Name |-> "A-old"]

PoolDomain ==
    { DhcpPoolService(NetA, 3600, 7200, "10.1.0.10", "10.1.0.20"),
      DhcpPoolService(NetAOld, 600, 1200, "10.1.0.30", "10.1.0.40"),
      DhcpPoolService(NetB, 3600, 7200, "10.2.0.10", "10.2.0.20"),
      DhcpPoolService(NetC, 600, 1200, "10.3.0.10", "10.3.0.20") }

DhcpGateways ==
    { Gateway(<<Uplink(NetB), Internal(NetA)>>, NilNatService, PlainFirewall, dhcp) :
        dhcp \in {NilDhcpService} \cup
                 {GatewayDhcpService(enabled, pools) :
                    enabled \in BOOLEAN, pools \in ListsUpTo(PoolDomain, MaxRules)} }

PoolRequests ==
    { PoolRequest(<<>>, <<>>, <<"10.1.0.100">>, <<"10.1.0.150">>),
      PoolRequest(<<60>>, <<>>, <<"10.1.0.160">>, <<"10.1.0.170">>),
      PoolRequest(<<60>>, <<120>>, <<"10.1.0.180">>, <<>>) }

PoolRequestLists == SeqsUpTo(PoolRequests, 2)

\* the answers of a server that is up, busy or failing
FewResponses ==
    { OkResponse,
      ErrResponse(<<"API Error: 400: gateway ", BusyText, ".">>),
      ErrResponse(<<"API Error: 500: internal server error">>) }

InitDhcp == InitWith(DhcpGateways, {"held", "new"})

\* one call on each of these gateways
NextDhcp ==
    \/ /\ call.n = 0
       /\ \E dhcppool \in PoolRequestLists : AddDhcpPool(Network(NetA), dhcppool)
    \/ \E resp \in FewResponses : AddDhcpPoolPost(resp)

SpecDhcp == InitDhcp /\ [][NextDhcp]_vars

-----------------------------------------------------------------------------
(* The operations that retry, against every answer of the server. *)

SomeFirewallRules ==
    { <<>>,
      <<FirewallRule("web", "allow", FALSE, "80", "1.2.3.4", "Any", "Any")>> }

RetryGateways ==
    { Gateway(<<Uplink(NetB), Internal(NetA)>>, NilNatService, fw, dhcp) :
        fw \in {NilFirewallService, PlainFirewall},
        dhcp \in {NilDhcpService, GatewayDhcpService(TRUE, <<DhcpPoolService(NetA, 3600, 7200, "10.1.0.10", "10.1.0.20")>>)} }

InitRetry == InitWith(RetryGateways, {"held", "new", "nil"})

NextRetry ==
    \/ /\ call.n = 0
       /\ \E dhcppool \in SeqsUpTo(PoolRequests, 1) : AddDhcpPool(Network(NetA), dhcppool)
    \/ /\ call.n = 0
       /\ \E action \in {"drop", "allow"}, rules \in SomeFirewallRules, get \in Responses :
             CreateFirewallRules(action, rules, get)
    \/ \E resp \in Responses : AddDhcpPoolPost(resp)
    \/ \E resp \in Responses : CreateFirewallRulesPost(resp)

SpecRetry == InitRetry /\ [][NextRetry]_vars

-----------------------------------------------------------------------------
(* Every operation, once, on gateways with every short interface list. *)

InterfaceDomain == {Uplink(NetA), Uplink(NetB), Internal(NetC)}

\* a 1:1 mapping of 10.0.0.1 to 1.2.3.4 as Create1to1Mapping makes it on uplink B
MappingNatRules ==
    << NatRule("web", "SNAT", "10.0.0.1", "", "1.2.3.4", "", "any", "netB"),
       NatRule("web", "DNAT", "1.2.3.4", "any", "10.0.0.1", "any", "any", "netB") >>

OpsGateways ==
    { Gateway(ifs, nat, fw, NilDhcpService) :
        ifs \in SeqsUpTo(InterfaceDomain, MaxIfs),
        nat \in {NilNatService, NatService(FALSE, "ipTranslation", "allowTraffic", "", MappingNatRules)},
        fw \in {NilFirewallService, PlainFirewall} }

\* the answers to a GET: the gateway, an error, a body that does not decode
GetResponses == {OkResponse, BadBodyResponse, ErrResponse(<<"API Error: 500: internal server error">>)}

VpnDocument == ServiceConfiguration(VcloudXmlns, NilNatService, NilFirewallService, NilDhcpService, "vpn-to-site-2")

InitOps == InitWith(OpsGateways, {"held", "new", "nil"})

NextOps ==
    \/ /\ call.n = 0
       /\ \E network \in {NilNetwork, Network(NetA)} :
             AddNATPortMappingWithUplink(network, "DNAT", "1.2.3.4", "80", "10.0.0.1", "8080")
    \/ /\ call.n = 0
       /\ AddNATPortMapping("DNAT", "1.2.3.4", "any", "10.0.0.1", "any")
    \/ /\ call.n = 0
       /\ AddNATMapping("SNAT", "10.0.0.1", "1.2.3.4", "")
    \/ /\ call.n = 0
       /\ RemoveNATPortMapping("DNAT", "1.2.3.4", "any", "10.0.0.1", "any")
    \/ /\ call.n = 0
       /\ RemoveNATMapping("SNAT", "10.0.0.1", "1.2.3.4", "")
    \/ /\ call.n = 0
       /\ \E get \in GetResponses : Create1to1Mapping("10.0.0.1", "1.2.3.4", "web", get)
    \/ /\ call.n = 0
       /\ \E get \in GetResponses : Remove1to1Mapping("10.0.0.1", "1.2.3.4", get)
    \/ /\ call.n = 0
       /\ \E get \in GetResponses : AddIpsecVPN(VpnDocument, get)
    \/ /\ call.n = 0
       /\ \E get \in GetResponses : CreateFirewallRules("drop", <<>>, get)
    \/ /\ call.n = 0
       /\ \E get \in GetResponses : Refresh(get)
    \/ \E resp \in Responses : AddNATPortMappingWithUplinkPost(resp)
    \/ \E resp \in Responses : RemoveNATPortMappingPost(resp)
    \/ \E resp \in Responses : Create1to1MappingPost(resp)
    \/ \E resp \in Responses : Remove1to1MappingPost(resp)
    \/ \E resp \in Responses : AddIpsecVPNPost(resp)
    \/ \E resp \in Responses : CreateFirewallRulesPost(resp)

SpecOps == InitOps /\ [][NextOps]_vars

-----------------------------------------------------------------------------
(* 1:1 mappings made and removed, call after call, beside another party. *)

\* rules that are no part of the mapping of 10.0.0.1 to 1.2.3.4
ForeignNatRule == NatRule("ssh", "DNAT", "5.6.7.8", "22", "10.0.0.9", "22", "tcp", "netB")
ForeignFirewallRule == FirewallRule("ssh", "allow", FALSE, "22", "10.0.0.9", "Any", "Any")

MappingGateways ==
    { Gateway(<<Uplink(NetA), Uplink(NetB)>>,
              NatService(TRUE, "ipTranslation", "allowTraffic", "", nat),
              FirewallService(TRUE, "drop", FALSE, fw), NilDhcpService) :
        nat \in {<<>>, <<ForeignNatRule>>, <<MappingNatRules[1]>>},
        fw \in {<<>>, <<ForeignFirewallRule>>} }

InitMapping == InitWith(MappingGateways, {"held"})

NextMapping ==
    \/ /\ call.n < MaxCalls
       /\ \E get \in GetResponses : Create1to1Mapping("10.0.0.1", "1.2.3.4", "web", get)
    \/ /\ call.n < MaxCalls
       /\ \E get \in GetResponses : Remove1to1Mapping("10.0.0.1", "1.2.3.4", get)
    \/ \E resp \in FewResponses : Create1to1MappingPost(resp)
    \/ \E resp \in FewResponses : Remove1to1MappingPost(resp)
    \/ OtherPartyAddsNatRule(ForeignNatRule)

SpecMapping == InitMapping /\ [][NextMapping]_vars

-----------------------------------------------------------------------------
(* NAT port mappings added and removed beside another party. *)

StaleGateways ==
    { Gateway(<<Uplink(NetA), Uplink(NetB)>>,
              NatService(TRUE, "ipTranslation", "allowTraffic", "", nat),
              PlainFirewall, NilDhcpService) :
        nat \in SeqsUpTo({BaseRule, ForeignNatRule}, 1) }

InitStale == InitWith(StaleGateways, {"held"})

NextStale ==
    \/ /\ call.n < MaxCalls
       /\ AddNATPortMapping("DNAT", "1.2.3.4", "80", "10.0.0.1", "8080")
    \/ /\ call.n < MaxCalls
       /\ RemoveNATPortMapping("DNAT", "1.2.3.4", "80", "10.0.0.1", "8080")
    \/ /\ call.n < MaxCalls
       /\ \E get \in GetResponses : Refresh(get)
    \/ \E resp \in FewResponses : AddNATPortMappingWithUplinkPost(resp)
    \/ \E resp \in FewResponses : RemoveNATPortMappingPost(resp)
    \/ \E r \in {ForeignNatRule, [BaseRule EXCEPT !.Protocol = "udp"]} : OtherPartyAddsNatRule(r)

SpecStale == InitStale /\ [][NextStale]_vars

-----------------------------------------------------------------------------
(* Refresh, call after call, beside another party. *)

InitRefresh == InitWith(StaleGateways, {"nil", "new", "held"})

NextRefresh ==
    \/ /\ call.n < MaxCalls + 1
       /\ \E get \in GetResponses : Refresh(get)
    \/ \E r \in {ForeignNatRule, [BaseRule EXCEPT !.Protocol = "udp"]} : OtherPartyAddsNatRule(r)

SpecRefresh == InitRefresh /\ [][NextRefresh]_vars

-----------------------------------------------------------------------------
(* What the claims speak of. *)

\* operation o has sent its document
Submitted(o) == call.op = o /\ call.posts > 0

\* the configuration the call merged its change with
ExistingConfig == call.existing.Configuration.EdgeGatewayServiceConfiguration

ExistingNatRules == ExistingConfig.NatService.NatRule

SubmittedNatRules == call.doc.NatService.NatRule

\* the network of the last interface flagged "uplink", "" when there is none
LastUplinkOf(ifs) ==
    LET ups == {i \in 1..Len(ifs) : ifs[i].InterfaceType = "uplink"}
    IN  IF ups = {} THEN ""
        ELSE ifs[CHOOSE i \in ups : \A j \in ups : j <= i].Network.HREF

\* the uplink a NAT call is asked to use: the network given, else the last uplink
RequestedUplink ==
    IF call.op = "AddNATPortMappingWithUplink" /\ ~call.args.network.isNil
    THEN call.args.network.HREF
    ELSE LastUplinkOf(call.existing.Configuration.GatewayInterfaces)

\* rule v has the six fields AddNATPortMappingWithUplink was called with
SameSixTuple(v) ==
    /\ v.RuleType = call.args.nattype
    /\ v.OriginalIP = call.args.externalIP
    /\ v.OriginalPort = call.args.externalPort
    /\ v.TranslatedIP = call.args.internalIP
    /\ v.TranslatedPort = call.args.internalPort
    /\ v.Interface = RequestedUplink

\* the rule AddNATPortMappingWithUplink was asked to add
RequestedRule ==
    NatRule("", call.args.nattype, call.args.externalIP, call.args.externalPort,
            call.args.internalIP, call.args.internalPort, "tcp", RequestedUplink)

MatchCount == Cardinality({i \in 1..Len(ExistingNatRules) : SameSixTuple(ExistingNatRules[i])})

\* C2 as claimed: a NAT add on a gateway with a NAT service submits the
\* existing list followed by the new rule when no existing rule has its six
\* fields, and otherwise a list of the existing list's length, the old rule
\* gone and the new one last.
C2_AsClaimed ==
    (Submitted("AddNATPortMappingWithUplink") /\ ~ExistingConfig.NatService.isNil) =>
        IF MatchCount = 0
        THEN SubmittedNatRules = Append(ExistingNatRules, RequestedRule)
        ELSE /\ Len(SubmittedNatRules) = Len(ExistingNatRules)
             /\ SubmittedNatRules[Len(SubmittedNatRules)] = RequestedRule
             /\ \A i \in 1..(Len(SubmittedNatRules) - 1) : ~SameSixTuple(SubmittedNatRules[i])

\* C2, amended: a NAT add on a gateway with a NAT service submits the existing
\* list without every rule that has the new rule's six fields, in the
\* original order, followed by the new rule; with k such rules its length is
\* the existing length - k + 1 (one more for k = 0, the same for k = 1).
C2_AddDropsEveryMatch ==
    (Submitted("AddNATPortMappingWithUplink") /\ ~ExistingConfig.NatService.isNil) =>
        /\ SubmittedNatRules = Append(SelectSeq(ExistingNatRules, LAMBDA v : ~SameSixTuple(v)), RequestedRule)
        /\ Len(SubmittedNatRules) = Len(ExistingNatRules) - MatchCount + 1

\* a NAT add that replaced the one rule with its six fields among others
C2_Witness ==
    /\ Submitted("AddNATPortMappingWithUplink")
    /\ ~ExistingConfig.NatService.isNil
    /\ MatchCount = 1
    /\ Len(ExistingNatRules) >= 2
    /\ ExistingNatRules[1].Protocol = "udp"
    /\ SameSixTuple(ExistingNatRules[1])

\* rule v has the type and original endpoint RemoveNATPortMapping was called with
SameTriple(v) ==
    /\ v.RuleType = call.args.nattype
    /\ v.OriginalIP = call.args.externalIP
    /\ v.OriginalPort = call.args.externalPort

\* C3 as claimed: a NAT remove submits the existing list without the rules
\* that have the given type, original IP and original port, the others in
\* their order.
C3_AsClaimed ==
    Submitted("RemoveNATPortMapping") =>
        SubmittedNatRules = SelectSeq(ExistingNatRules, LAMBDA v : ~SameTriple(v))

\* C3, amended: a NAT remove submits the existing list without the rules that
\* have the given type, original IP and original port and are on the
\* gateway's last uplink, whatever their translated IP and port; every other
\* rule, one with that triple on another interface included, is kept in order.
C3_RemoveDropsTripleOnUplink ==
    Submitted("RemoveNATPortMapping") =>
        SubmittedNatRules =
            SelectSeq(ExistingNatRules, LAMBDA v : ~(SameTriple(v) /\ v.Interface = RequestedUplink))

\* a NAT remove that dropped two rules with different translated endpoints
C3_Witness ==
    /\ Submitted("RemoveNATPortMapping")
    /\ \E i, j \in 1..Len(ExistingNatRules) :
          /\ SameTriple(ExistingNatRules[i]) /\ ExistingNatRules[i].Interface = RequestedUplink
          /\ SameTriple(ExistingNatRules[j]) /\ ExistingNatRules[j].Interface = RequestedUplink
          /\ ExistingNatRules[i].TranslatedIP # ExistingNatRules[j].TranslatedIP
    /\ Len(SubmittedNatRules) = Len(ExistingNatRules) - 2

ExistingPools == ExistingConfig.GatewayDhcpService.Pool

SubmittedPools == call.doc.GatewayDhcpService.Pool

\* the existing pools of the networks other than the call's
OtherNetworksPools == SelectSeq(ExistingPools, LAMBDA v : v.Network.HREF # call.args.network.HREF)

\* C4: AddDhcpPool on a gateway with a DHCP service submits the existing pools
\* of the other networks, in their order, followed by one pool per requested
\* entry, in the order of the request, each on the call's network.
C4_DhcpPoolsReplaced ==
    (Submitted("AddDhcpPool") /\ ~ExistingConfig.GatewayDhcpService.isNil) =>
        LET k == Len(OtherNetworksPools)
            req == call.args.dhcppool
        IN  /\ Len(SubmittedPools) = k + Len(req)
            /\ \A i \in 1..k : SubmittedPools[i] = OtherNetworksPools[i]
            /\ \A i \in 1..Len(req) :
                  /\ SubmittedPools[k + i].Network.HREF = call.args.network.HREF
                  /\ SubmittedPools[k + i].Network.Name = call.args.network.Name
                  /\ SubmittedPools[k + i].LowIPAddress = req[i].start_address[1]
                  /\ SubmittedPools[k + i].HighIPAddress = req[i].end_address[1]

\* an AddDhcpPool of two entries that dropped a pool of its network, listed
\* under another name, from between two pools it kept
C4_Witness ==
    /\ Submitted("AddDhcpPool")
    /\ ~ExistingConfig.GatewayDhcpService.isNil
    /\ Len(ExistingPools) = 3
    /\ ExistingPools[2].Network = NetAOld
    /\ Len(OtherNetworksPools) = 2
    /\ Len(call.args.dhcppool) = 2
    /\ call.args.dhcppool[1] # call.args.dhcppool[2]

\* the message ends in "is busy completing an operation."
EndsInBusySentence(resp) ==
    /\ resp.kind = "err"
    /\ Len(resp.msg) >= 2
    /\ resp.msg[Len(resp.msg) - 1] = BusyText
    /\ resp.msg[Len(resp.msg)] = "."

\* an error whose message does not match the pattern: the text, one more
\* character, the end
OffPattern(resp) ==
    /\ resp.kind = "err"
    /\ ~(/\ Len(resp.msg) >= 2
         /\ resp.msg[Len(resp.msg) - 1] = BusyText
         /\ resp.msg[Len(resp.msg)] \in {".", "!"})

\* the answers the call got before its latest one were all "busy"
BusyUntilLast == \A i \in 1..(Len(call.answers) - 1) : EndsInBusySentence(call.answers[i])

\* what C5 says of a state of AddDhcpPool or CreateFirewallRules
C5_Counts ==
    (call.op \in {"AddDhcpPool", "CreateFirewallRules"} /\ call.posts > 0) =>
        LET n == Len(call.answers)
        IN  /\ call.posts = n
            /\ (BusyUntilLast /\ EndsInBusySentence(call.answers[n])) =>
                   (pc = "post" /\ call.result = "none" /\ call.sleeps = n)
            /\ (BusyUntilLast /\ call.answers[n] = OkResponse) =>
                   (pc = "idle" /\ call.result = "ok" /\ call.sleeps = n - 1)
            /\ \A i \in 1..n : OffPattern(call.answers[i]) =>
                   (i = n /\ pc = "idle" /\ call.result = "error" /\ call.sleeps = n - 1)

\* between two POSTs of a call the document stays the same, and the call
\* sleeps once
C5_SameDocument ==
    (pc = "post" /\ pc' = "post" /\ call.posts > 0) =>
        (call'.doc = call.doc /\ call'.sleeps = call.sleeps + 1 /\ call'.posts = call.posts + 1)

NatOfMapping(v, internal, external) ==
    \/ v.RuleType = "SNAT" /\ v.OriginalIP = internal /\ v.TranslatedIP = external
    \/ v.RuleType = "DNAT" /\ v.OriginalIP = external /\ v.TranslatedIP = internal

\* a firewall rule of the 1:1 mapping of internal to external
FwOfMapping(v, internal, external) ==
    v.Policy = "allow" /\ (v.DestinationIP = external \/ v.SourceIP = internal)

NatRulesOf(srv) == srv.EdgeGatewayServiceConfiguration.NatService.NatRule

FirewallRulesOf(srv) == srv.EdgeGatewayServiceConfiguration.FirewallService.FirewallRule

\* no rule of the mapping is on the gateway srv
PatternFree(srv, internal, external) ==
    /\ \A i \in 1..Len(NatRulesOf(srv)) : ~NatOfMapping(NatRulesOf(srv)[i], internal, external)
    /\ \A i \in 1..Len(FirewallRulesOf(srv)) : ~FwOfMapping(FirewallRulesOf(srv)[i], internal, external)

\* a Create1to1Mapping and then a Remove1to1Mapping of the same addresses have
\* both returned a task, the server took both documents, nobody else touched
\* the gateway meanwhile, and no rule of the mapping was there before
CreatedThenRemoved ==
    /\ call.op = "Remove1to1Mapping" /\ call.result = "ok" /\ ~disturbed
    /\ prev.op = "Create1to1Mapping" /\ prev.result = "ok" /\ prev.undisturbed
    /\ prev.args.internal = call.args.internal
    /\ prev.args.external = call.args.external
    /\ PatternFree(prev.before, call.args.internal, call.args.external)

\* C1: after Create1to1Mapping and Remove1to1Mapping of the same addresses on
\* a gateway with no rule of that mapping, the server has the NAT rules and
\* the firewall rules it had before the Create, in the same order.
C1_AsClaimed ==
    CreatedThenRemoved =>
        /\ NatRulesOf(server) = NatRulesOf(prev.before)
        /\ FirewallRulesOf(server) = FirewallRulesOf(prev.before)

\* the same round trip when the Refresh of both calls succeeded: what is left
\* of C1 once a failed Refresh stops the call
C1_RoundTripWhenRefreshed ==
    (CreatedThenRemoved /\ call.refresh = "ok" /\ prev.refresh = "ok") =>
        /\ NatRulesOf(server) = NatRulesOf(prev.before)
        /\ FirewallRulesOf(server) = FirewallRulesOf(prev.before)

\* a round trip on a gateway that had rules of its own
C1_Witness ==
    /\ CreatedThenRemoved /\ call.refresh = "ok" /\ prev.refresh = "ok"
    /\ Len(NatRulesOf(prev.before)) > 0
    /\ Len(FirewallRulesOf(prev.before)) > 0

SinglePostOps ==
    {"RemoveNATPortMapping", "AddNATPortMappingWithUplink", "Create1to1Mapping",
     "Remove1to1Mapping", "AddIpsecVPN"}

\* C6: the NAT, 1:1 and VPN operations send at most one POST a call and never
\* sleep; a POST that fails, with the "busy" message too, ends the call with
\* an error.
C6_SinglePost ==
    call.op \in SinglePostOps =>
        /\ call.posts <= 1
        /\ call.sleeps = 0
        /\ call.posts = 1 => pc = "idle"
        /\ (call.posts = 1 /\ call.answers[1].kind = "err") => call.result = "error"

\* AddIpsecVPN answered "busy": one POST, no sleep, an error returned
C6_Witness ==
    /\ call.op = "AddIpsecVPN"
    /\ call.posts = 1
    /\ EndsInBusySentence(call.answers[1])
    /\ call.result = "error"

\* the entries of the other party that the call was not asked to drop
Spared(r) ==
    CASE call.op = "AddNATPortMappingWithUplink" -> ~SameSixTuple(r)
      [] call.op = "RemoveNATPortMapping" -> ~(SameTriple(r) /\ r.Interface = RequestedUplink)
      [] call.op \in {"Create1to1Mapping", "Remove1to1Mapping"} ->
            ~NatOfMapping(r, call.args.internal, call.args.external)
      [] OTHER -> TRUE

\* C7: an entry another party put on the server after the client's last
\* Refresh is still there after a merging write of the client, unless the
\* write was to drop it.
C7_AsClaimed ==
    ( /\ call.op \in {"AddNATPortMappingWithUplink", "RemoveNATPortMapping",
                      "Create1to1Mapping", "Remove1to1Mapping"}
      /\ call.result = "ok"
      /\ ~disturbed ) =>
        \A r \in foreign :
            Spared(r) => \E i \in 1..Len(NatRulesOf(server)) : NatRulesOf(server)[i] = r

\* C8: CreateFirewallRules, Create1to1Mapping and Remove1to1Mapping stop when
\* their Refresh fails: they send no POST.
C8_AsClaimed ==
    (call.op \in {"CreateFirewallRules", "Create1to1Mapping", "Remove1to1Mapping"} /\ call.refresh = "err") =>
        (call.posts = 0 /\ pc # "post")

\* AddIpsecVPN has sent its POST after a Refresh that failed
C8_VpnGoesOn ==
    /\ call.op = "AddIpsecVPN"
    /\ call.refresh = "err"
    /\ call.posts = 1

\* C9: Refresh on a client with no gateway reference (a nil object, or an
\* object whose reference is empty) returns an error, sends no GET and does
\* not crash.
C9_AsClaimed ==
    (call.op = "Refresh" /\ (call.existing.isNil \/ call.existing.HREF = "")) =>
        (call.result = "error" /\ call.gets = 0 /\ pc # "crashed")

\* Refresh on a nil object has returned its error
C9_NilObject ==
    /\ call.op = "Refresh"
    /\ call.existing.isNil
    /\ call.result = "error"
    /\ call.gets = 0

\* the interfaces of the gateway the call worked on
CallInterfaces == call.existing.Configuration.GatewayInterfaces

UplinkIndices == {i \in 1..Len(CallInterfaces) : CallInterfaces[i].InterfaceType = "uplink"}

\* the call got as far as building its document, and was given no network
ChoseUplink ==
    /\ call.op \in {"AddNATPortMappingWithUplink", "RemoveNATPortMapping",
                    "Create1to1Mapping", "Remove1to1Mapping"}
    /\ pc = "post" \/ call.posts > 0
    /\ call.op = "AddNATPortMappingWithUplink" => call.args.network.isNil

\* the rules of a list that are not on the interface href
OffInterface(rules, href) == SelectSeq(rules, LAMBDA v : v.Interface # href)

DecodedFrom(f) == IF f.resp.kind = "ok" THEN DecodeEdgeGateway(f.srv) ELSE EmptyEdgeGateway

\* the GET of the Refresh was answered by a transport error or a status
\* that is not 2xx
GetFailed == call.op = "Refresh" /\ call.got.kind = "err"

\* C11: a Refresh whose GET fails returns an error and leaves the held
\* object as it was; the held object is replaced only once a 2xx answer has
\* come; so after any sequence of Refresh calls the client holds the object
\* it held before the first, as long as no GET was answered 2xx, and from
\* then on what decodeBody made of the most recent 2xx answer.
C11_FailedGetKeepsHeld ==
    /\ GetFailed => (EdgeGateway = call.existing /\ call.result = "error")
    /\ (call.op = "Refresh" /\ EdgeGateway # call.existing) => call.got.kind \in {"ok", "badbody"}
    /\ call.op \in {"none", "Refresh"} =>
          IF call.fetched = <<>> THEN EdgeGateway = call.first
          ELSE EdgeGateway = DecodedFrom(call.fetched[1])

\* a Refresh that succeeded, a change by the other party, and then a Refresh
\* whose GET failed: the client holds the gateway of the first answer, which
\* is no longer the server's
C11_Witness ==
    /\ GetFailed
    /\ call.n >= 2
    /\ call.result = "error"
    /\ call.fetched # <<>>
    /\ call.fetched[1].resp.kind = "ok"
    /\ EdgeGateway = DecodeEdgeGateway(call.fetched[1].srv)
    /\ EdgeGateway # DecodeEdgeGateway(server)
    /\ EdgeGateway # call.first

====
